---- MODULE Spec2Model ----
(***************************************************************************)
(* aws_vpc.py: provisioning and teardown of a VPC, an internet gateway, a  *)
(* public route table and two subnets through the EC2 control-plane API.   *)
(*                                                                         *)
(* The state is the EC2 account the script talks to (ec2), the locals of   *)
(* main() and of the function it is executing, the position of the running *)
(* process (pc) and the exit status of the last process.  Every action is  *)
(* one API request of the script together with the Python statements that  *)
(* surround it; each request either succeeds or raises ClientError, and a  *)
(* raised ClientError reaches main()'s except clause, which exits with 1.  *)
(*                                                                         *)
(* History variables (not read by any action's guard): calls, the requests *)
(* the running process has issued so far with their results ("ok", "error" *)
(* for a fault, "refused" for an error the account's state forces, "false" *)
(* for CreateRoute's Return = False); pre, the account as it was when the  *)
(* process started; prev, what the process before it was, had resolved and *)
(* had started from.                                                       *)
(***************************************************************************)
EXTENDS Integers, Sequences, FiniteSets, TLC

VARIABLES
    ec2,                      \* the account: VPCs, gateways, route tables, subnets, associations, tags
    pc,                       \* position of the running process; "idle" before the first
                              \* process, "exited" after a process has ended
    exit_code,                \* exit status of the last process that ended
    delete_resources,         \* main: args.delete
    cidr_block,               \* main: cidr_block
    name,                     \* main: vpc_name, igw_name, rtb_name, subnet01_name, subnet02_name
    wait,                     \* create_vpc: wait
    vpc_id,                   \* vpc_id (main, create_vpc, delete_vpc_resources)
    igw_id,                   \* igw_id
    rtb_id,                   \* rtb_id
    subnet01_id,              \* main: subnet01_id
    subnet02_id,              \* main: subnet02_id
    subnet01_association_id,  \* main: subnet01_association_id
    association,              \* associate_public_route: association['AssociationId']
    rtb,                      \* delete_vpc_resources: rtb (a describe_route_tables record)
    associations,             \* delete_vpc_resources: what is left of the loop over rtb['Associations']
    subnets,                  \* delete_vpc_resources: what is left of the loop over subnets
    calls,                    \* history: the API requests of the running (or last) process
    pre,                      \* history: ec2 when the running (or last) process started
    prev,                     \* history: the process before the running (or last) one
    faults                    \* the number of faults so far

vars == <<ec2, pc, exit_code, delete_resources, cidr_block, name, wait, vpc_id, igw_id,
          rtb_id, subnet01_id, subnet02_id, subnet01_association_id, association, rtb,
          associations, subnets, calls, pre, prev, faults>>

locals == <<delete_resources, cidr_block, name, wait, vpc_id, igw_id, rtb_id, subnet01_id,
            subnet02_id, subnet01_association_id, association, rtb, associations, subnets>>

None == "None"

(***************************************************************************)
(* Bounds.  The account's quota of each resource type bounds the model: a  *)
(* create request beyond the quota raises ClientError, as the provider's   *)
(* limit-exceeded errors do.                                               *)
(***************************************************************************)
MaxVpcs == 2
\* The number of provider errors, over all processes, that the account's state does
\* not force (transport errors, throttling, a CreateRoute answering Return = False).
MaxFaults == 2

VpcIdSeq == <<"vpc-1", "vpc-2", "vpc-3", "vpc-4">>
IgwIdSeq == <<"igw-1", "igw-2", "igw-3", "igw-4">>
RtbIdSeq == <<"rtb-1", "rtb-2", "rtb-3", "rtb-4">>
SubnetIdSeq == <<"subnet-1", "subnet-2", "subnet-3", "subnet-4",
                 "subnet-5", "subnet-6", "subnet-7", "subnet-8">>
AssocIdSeq == <<"rtbassoc-1", "rtbassoc-2", "rtbassoc-3", "rtbassoc-4">>

Prefix(seq, n) == {seq[i] : i \in 1..n}

VpcIds == Prefix(VpcIdSeq, MaxVpcs)
IgwIds == Prefix(IgwIdSeq, MaxVpcs)
RtbIds == Prefix(RtbIdSeq, MaxVpcs)
SubnetIds == Prefix(SubnetIdSeq, 2 * MaxVpcs)
AssocIds == Prefix(AssocIdSeq, MaxVpcs)

\* The example configuration of main(): the CIDR block the user sets before running.
Cidrs == {"10.1.0.0/16"}
\* The names of the example configuration: all of them None, or all of them set.
Names == {None, "boto3"}

DefaultRoute == "0.0.0.0/0"

(***************************************************************************)
(* The EC2 account.  Ids are opaque; a create request returns the first id *)
(* of its type that no existing resource has.                              *)
(***************************************************************************)
EmptyEc2 ==
    [vpcs |-> <<>>,     \* VPC id -> [cidr, dns]
     igws |-> <<>>,     \* gateway id -> the VPC it is attached to, or None
     rtbs |-> <<>>,     \* non-main route table id -> [vpc, routes], routes a set of [dest, gw]
     subnets |-> <<>>,  \* subnet id -> [vpc, public]  (public: MapPublicIpOnLaunch)
     assocs |-> <<>>,   \* association id -> [rtb, subnet]
     tags |-> {}]       \* the resources that carry a tag

Drop(f, k) == [x \in DOMAIN f \ {k} |-> f[x]]

HasFree(seq, pool, used) == \E i \in 1..Len(seq) : seq[i] \in pool \ used

FreeId(seq, pool, used) ==
    seq[CHOOSE i \in 1..Len(seq) :
            /\ seq[i] \in pool \ used
            /\ \A j \in 1..(i - 1) : seq[j] \notin pool \ used]

Perms(S) == {q \in [1..Cardinality(S) -> S] : \A i, j \in 1..Cardinality(S) : q[i] = q[j] => i = j}

\* ---- VPC
CanCreateVpc(e) == HasFree(VpcIdSeq, VpcIds, DOMAIN e.vpcs)
NewVpcId(e) == FreeId(VpcIdSeq, VpcIds, DOMAIN e.vpcs)
CreateVpc(e, cidr) ==
    [e EXCEPT !.vpcs = (NewVpcId(e) :> [cidr |-> cidr, dns |-> FALSE]) @@ @]

CanModifyVpcAttribute(e, v) == v \in DOMAIN e.vpcs
ModifyVpcAttribute(e, v) == [e EXCEPT !.vpcs[v].dns = TRUE]

DescribeVpcs(e, cidr) == {v \in DOMAIN e.vpcs : e.vpcs[v].cidr = cidr}

\* A VPC cannot be deleted while it owns a subnet, a non-main route table or an
\* attached gateway.
CanDeleteVpc(e, v) ==
    /\ v \in DOMAIN e.vpcs
    /\ \A s \in DOMAIN e.subnets : e.subnets[s].vpc # v
    /\ \A r \in DOMAIN e.rtbs : e.rtbs[r].vpc # v
    /\ \A g \in DOMAIN e.igws : e.igws[g] # v
DeleteVpc(e, v) == [e EXCEPT !.vpcs = Drop(@, v), !.tags = @ \ {v}]

\* ---- Internet gateway
CanCreateInternetGateway(e) == HasFree(IgwIdSeq, IgwIds, DOMAIN e.igws)
NewIgwId(e) == FreeId(IgwIdSeq, IgwIds, DOMAIN e.igws)
CreateInternetGateway(e) == [e EXCEPT !.igws = (NewIgwId(e) :> None) @@ @]

\* A gateway is attached to at most one VPC, a VPC has at most one gateway.
CanAttachInternetGateway(e, g, v) ==
    /\ g \in DOMAIN e.igws
    /\ v \in DOMAIN e.vpcs
    /\ e.igws[g] = None
    /\ \A h \in DOMAIN e.igws : e.igws[h] # v
AttachInternetGateway(e, g, v) == [e EXCEPT !.igws[g] = v]

CanDetachInternetGateway(e, g, v) == g \in DOMAIN e.igws /\ e.igws[g] = v
DetachInternetGateway(e, g) == [e EXCEPT !.igws[g] = None]

\* A gateway cannot be deleted while attached.
CanDeleteInternetGateway(e, g) == g \in DOMAIN e.igws /\ e.igws[g] = None
DeleteInternetGateway(e, g) == [e EXCEPT !.igws = Drop(@, g), !.tags = @ \ {g}]

DescribeInternetGateways(e, v) == {g \in DOMAIN e.igws : e.igws[g] = v}

\* ---- Route table
CanCreateRouteTable(e, v) ==
    v \in DOMAIN e.vpcs /\ HasFree(RtbIdSeq, RtbIds, DOMAIN e.rtbs)
NewRtbId(e) == FreeId(RtbIdSeq, RtbIds, DOMAIN e.rtbs)
CreateRouteTable(e, v) ==
    [e EXCEPT !.rtbs = (NewRtbId(e) :> [vpc |-> v, routes |-> {}]) @@ @]

CanCreateRoute(e, r, g) == r \in DOMAIN e.rtbs /\ g \in DOMAIN e.igws
CreateRoute(e, r, g) ==
    [e EXCEPT !.rtbs[r].routes = @ \cup {[dest |-> DefaultRoute, gw |-> g]}]

AssociationsOf(e, r) == {a \in DOMAIN e.assocs : e.assocs[a].rtb = r}

\* The records describe_route_tables returns for Filter route.gateway-id.
DescribeRouteTables(e, g) ==
    {r \in DOMAIN e.rtbs : \E rt \in e.rtbs[r].routes : rt.gw = g}

\* A route table cannot be deleted while an association references it.
CanDeleteRouteTable(e, r) == r \in DOMAIN e.rtbs /\ AssociationsOf(e, r) = {}
DeleteRouteTable(e, r) == [e EXCEPT !.rtbs = Drop(@, r), !.tags = @ \ {r}]

CanAssociateRouteTable(e, r, s) ==
    /\ r \in DOMAIN e.rtbs
    /\ s \in DOMAIN e.subnets
    /\ e.rtbs[r].vpc = e.subnets[s].vpc
    /\ \A a \in DOMAIN e.assocs : e.assocs[a].subnet # s
    /\ HasFree(AssocIdSeq, AssocIds, DOMAIN e.assocs)
NewAssocId(e) == FreeId(AssocIdSeq, AssocIds, DOMAIN e.assocs)
AssociateRouteTable(e, r, s) ==
    [e EXCEPT !.assocs = (NewAssocId(e) :> [rtb |-> r, subnet |-> s]) @@ @]

CanDisassociateRouteTable(e, a) == a \in DOMAIN e.assocs
DisassociateRouteTable(e, a) == [e EXCEPT !.assocs = Drop(@, a)]

\* ---- Subnet
CanCreateSubnet(e, v) ==
    v \in DOMAIN e.vpcs /\ HasFree(SubnetIdSeq, SubnetIds, DOMAIN e.subnets)
NewSubnetId(e) == FreeId(SubnetIdSeq, SubnetIds, DOMAIN e.subnets)
CreateSubnet(e, v) ==
    [e EXCEPT !.subnets = (NewSubnetId(e) :> [vpc |-> v, public |-> FALSE]) @@ @]

CanModifySubnetAttribute(e, s) == s \in DOMAIN e.subnets
ModifySubnetAttribute(e, s) == [e EXCEPT !.subnets[s].public = TRUE]

DescribeSubnets(e, v) == {s \in DOMAIN e.subnets : e.subnets[s].vpc = v}

\* Deleting a subnet removes its route-table association with it.
CanDeleteSubnet(e, s) == s \in DOMAIN e.subnets
DeleteSubnet(e, s) ==
    [e EXCEPT !.subnets = Drop(@, s),
              !.assocs = [a \in {b \in DOMAIN @ : @[b].subnet # s} |-> @[a]],
              !.tags = @ \ {s}]

\* ---- Tags
Resources(e) ==
    DOMAIN e.vpcs \cup DOMAIN e.igws \cup DOMAIN e.rtbs \cup DOMAIN e.subnets

CanTag(e, x) == x \in Resources(e)
CreateTags(e, x) == [e EXCEPT !.tags = @ \cup {x}]
DeleteTags(e, x) == [e EXCEPT !.tags = @ \ {x}]

(***************************************************************************)
(* The process.                                                            *)
(***************************************************************************)
Call(op, rid, res) == [op |-> op, rid |-> rid, res |-> res]

\* A provider error the account's state does not force: a fault.
Fault ==
    /\ faults < MaxFaults
    /\ faults' = faults + 1

\* A request raised ClientError: the exception leaves the function, main()'s
\* except clause logs it and calls exit(1).  can: the account's state allows the
\* request, so that the error is a fault; otherwise the provider must refuse it.
Raise(op, rid, can) ==
    /\ IF can THEN Fault ELSE UNCHANGED faults
    /\ calls' = Append(calls, Call(op, rid, IF can THEN "error" ELSE "refused"))
    /\ pc' = "exited"
    /\ exit_code' = 1
    /\ UNCHANGED <<ec2, locals, pre, prev>>

\* A request succeeded, and the process goes on at next; next = "exited" is
\* exit(0), or main() running off its end.
Ok(op, rid, e, next) ==
    /\ calls' = Append(calls, Call(op, rid, "ok"))
    /\ ec2' = e
    /\ pc' = next
    /\ exit_code' = IF next = "exited" THEN 0 ELSE exit_code
    /\ UNCHANGED <<pre, prev, faults>>

cfg == <<delete_resources, cidr_block, name>>
ids == <<vpc_id, igw_id, rtb_id, subnet01_id, subnet02_id, subnet01_association_id>>
loops == <<association, rtb, associations, subnets>>

\* The ids the process holds: those its create requests returned, or those its
\* lookups resolved.
Resolved ==
    ({vpc_id, igw_id, rtb_id, subnet01_id, subnet02_id} \ {None})
        \cup ({rtb.RouteTableId} \ {None})
        \cup (IF \E i \in 1..Len(calls) : calls[i] = Call("DescribeSubnets", None, "ok")
              THEN DescribeSubnets(pre, vpc_id)
              ELSE {})

\* The topology one complete provisioning run builds in an empty account.
Provisioned(e) ==
    \E v \in DOMAIN e.vpcs, g \in DOMAIN e.igws, r \in DOMAIN e.rtbs,
      s1 \in DOMAIN e.subnets, s2 \in DOMAIN e.subnets, a \in DOMAIN e.assocs :
        /\ DOMAIN e.vpcs = {v}
        /\ e.vpcs[v].dns
        /\ DOMAIN e.igws = {g}
        /\ e.igws[g] = v
        /\ DOMAIN e.rtbs = {r}
        /\ e.rtbs[r] = [vpc |-> v, routes |-> {[dest |-> DefaultRoute, gw |-> g]}]
        /\ s1 # s2
        /\ DOMAIN e.subnets = {s1, s2}
        /\ e.subnets[s1] = [vpc |-> v, public |-> TRUE]
        /\ e.subnets[s2] = [vpc |-> v, public |-> FALSE]
        /\ DOMAIN e.assocs = {a}
        /\ e.assocs[a] = [rtb |-> r, subnet |-> s1]

\* prev before the first process.
NoProcess == [delete |-> FALSE, cidr |-> None, code |-> 0, ids |-> {}, complete |-> FALSE]

\* rtb is None.
NoRtb == [RouteTableId |-> None, Associations |-> <<>>]

Init ==
    /\ ec2 = EmptyEc2
    /\ pc = "idle"
    /\ exit_code = 0
    /\ delete_resources = FALSE
    /\ cidr_block = None
    /\ name = None
    /\ wait = FALSE
    /\ vpc_id = None
    /\ igw_id = None
    /\ rtb_id = None
    /\ subnet01_id = None
    /\ subnet02_id = None
    /\ subnet01_association_id = None
    /\ association = None
    /\ rtb = NoRtb
    /\ associations = <<>>
    /\ subnets = <<>>
    /\ calls = <<>>
    /\ pre = EmptyEc2
    /\ prev = NoProcess
    /\ faults = 0

\* main(), up to the branch on args.delete: a new process with fresh locals.
main ==
    /\ pc \in {"idle", "exited"}
    /\ \E d \in BOOLEAN, c \in Cidrs :
        /\ delete_resources' = d
        /\ cidr_block' = c
        /\ pc' = IF d THEN "get_vpc_id" ELSE "create_vpc"
    /\ name' \in Names
    /\ wait' = FALSE
    /\ vpc_id' = None
    /\ igw_id' = None
    /\ rtb_id' = None
    /\ subnet01_id' = None
    /\ subnet02_id' = None
    /\ subnet01_association_id' = None
    /\ association' = None
    /\ rtb' = NoRtb
    /\ associations' = <<>>
    /\ subnets' = <<>>
    /\ calls' = <<>>
    /\ pre' = ec2
    /\ prev' = [delete |-> delete_resources, cidr |-> cidr_block, code |-> exit_code,
                ids |-> Resolved, complete |-> Provisioned(pre)]
    /\ UNCHANGED <<ec2, exit_code, faults>>

(***************************************************************************)
(* Provisioning: main() lines 352-404 and the create functions.            *)
(***************************************************************************)

\* Mutant: the wait argument is ignored and the waiter is never called.
create_vpc_create_without_wait ==
    /\ pc = "create_vpc"
    /\ \/ /\ CanCreateVpc(ec2)
          /\ \E w \in BOOLEAN :
                /\ wait' = w
                /\ Ok("CreateVpc", NewVpcId(ec2), CreateVpc(ec2, cidr_block),
                      IF name # None THEN "tag_vpc" ELSE "modify_vpc")
          /\ vpc_id' = NewVpcId(ec2)
          /\ UNCHANGED <<cfg, igw_id, rtb_id, subnet01_id, subnet02_id,
                         subnet01_association_id, loops>>
       \/ Raise("CreateVpc", None, CanCreateVpc(ec2))

\* create_vpc: client.create_vpc.  vpc_name and wait are the caller's arguments.
create_vpc_create ==
    /\ pc = "create_vpc"
    /\ \/ /\ CanCreateVpc(ec2)
          /\ \E w \in BOOLEAN :
                /\ wait' = w
                /\ Ok("CreateVpc", NewVpcId(ec2), CreateVpc(ec2, cidr_block),
                      IF w THEN "wait_vpc" ELSE IF name # None THEN "tag_vpc" ELSE "modify_vpc")
          /\ vpc_id' = NewVpcId(ec2)
          /\ UNCHANGED <<cfg, igw_id, rtb_id, subnet01_id, subnet02_id,
                         subnet01_association_id, loops>>
       \/ Raise("CreateVpc", None, CanCreateVpc(ec2))

\* create_vpc: client.get_waiter('vpc_available').wait, when wait is set.
create_vpc_wait ==
    /\ pc = "wait_vpc"
    /\ \/ /\ vpc_id \in DOMAIN ec2.vpcs
          /\ Ok("WaitVpcAvailable", vpc_id, ec2, IF name # None THEN "tag_vpc" ELSE "modify_vpc")
          /\ UNCHANGED locals
       \/ Raise("WaitVpcAvailable", vpc_id, vpc_id \in DOMAIN ec2.vpcs)

\* create_vpc: client.create_tags, when vpc_name is not None.
create_vpc_tags ==
    /\ pc = "tag_vpc"
    /\ \/ /\ CanTag(ec2, vpc_id)
          /\ Ok("CreateTags", vpc_id, CreateTags(ec2, vpc_id), "modify_vpc")
          /\ UNCHANGED locals
       \/ Raise("CreateTags", vpc_id, CanTag(ec2, vpc_id))

\* create_vpc: client.modify_vpc_attribute(EnableDnsHostnames), then return.
create_vpc_modify ==
    /\ pc = "modify_vpc"
    /\ \/ /\ CanModifyVpcAttribute(ec2, vpc_id)
          /\ Ok("ModifyVpcAttribute", vpc_id, ModifyVpcAttribute(ec2, vpc_id), "create_igw")
          /\ wait' = FALSE
          /\ UNCHANGED <<cfg, ids, loops>>
       \/ Raise("ModifyVpcAttribute", vpc_id, CanModifyVpcAttribute(ec2, vpc_id))

\* create_internet_gateway: client.create_internet_gateway.
create_internet_gateway_create ==
    /\ pc = "create_igw"
    /\ \/ /\ CanCreateInternetGateway(ec2)
          /\ Ok("CreateInternetGateway", NewIgwId(ec2), CreateInternetGateway(ec2),
                IF name # None THEN "tag_igw" ELSE "attach_igw")
          /\ igw_id' = NewIgwId(ec2)
          /\ UNCHANGED <<cfg, wait, vpc_id, rtb_id, subnet01_id, subnet02_id,
                         subnet01_association_id, loops>>
       \/ Raise("CreateInternetGateway", None, CanCreateInternetGateway(ec2))

\* create_internet_gateway: client.create_tags, when igw_name is not None.
create_internet_gateway_tags ==
    /\ pc = "tag_igw"
    /\ \/ /\ CanTag(ec2, igw_id)
          /\ Ok("CreateTags", igw_id, CreateTags(ec2, igw_id), "attach_igw")
          /\ UNCHANGED locals
       \/ Raise("CreateTags", igw_id, CanTag(ec2, igw_id))

\* Mutant: the gateway is returned without being attached to the VPC.
create_internet_gateway_without_attach ==
    /\ pc = "attach_igw"
    /\ \/ /\ CanAttachInternetGateway(ec2, igw_id, vpc_id)
          /\ Ok("AttachInternetGateway", igw_id, ec2, "create_rtb")
          /\ UNCHANGED <<cfg, wait, ids, loops>>
       \/ Raise("AttachInternetGateway", igw_id, CanAttachInternetGateway(ec2, igw_id, vpc_id))

\* create_internet_gateway: client.attach_internet_gateway, then return.
create_internet_gateway_attach ==
    /\ pc = "attach_igw"
    /\ \/ /\ CanAttachInternetGateway(ec2, igw_id, vpc_id)
          /\ Ok("AttachInternetGateway", igw_id, AttachInternetGateway(ec2, igw_id, vpc_id),
                "create_rtb")
          /\ UNCHANGED <<cfg, wait, ids, loops>>
       \/ Raise("AttachInternetGateway", igw_id, CanAttachInternetGateway(ec2, igw_id, vpc_id))

\* create_public_route_table: client.create_route_table.
create_public_route_table_create ==
    /\ pc = "create_rtb"
    /\ \/ /\ CanCreateRouteTable(ec2, vpc_id)
          /\ Ok("CreateRouteTable", NewRtbId(ec2), CreateRouteTable(ec2, vpc_id),
                "create_route")
          /\ rtb_id' = NewRtbId(ec2)
          /\ UNCHANGED <<cfg, wait, vpc_id, igw_id, subnet01_id, subnet02_id,
                         subnet01_association_id, loops>>
       \/ Raise("CreateRouteTable", None, CanCreateRouteTable(ec2, vpc_id))

\* Mutant: response['Return'] is not checked.
create_public_route_table_route_unchecked ==
    /\ pc = "create_route"
    /\ \/ /\ CanCreateRoute(ec2, rtb_id, igw_id)
          /\ Ok("CreateRoute", rtb_id, CreateRoute(ec2, rtb_id, igw_id),
                IF name # None THEN "tag_rtb" ELSE "create_subnet01")
          /\ UNCHANGED locals
       \/ /\ CanCreateRoute(ec2, rtb_id, igw_id)
          /\ Fault
          /\ calls' = Append(calls, Call("CreateRoute", rtb_id, "false"))
          /\ pc' = (IF name # None THEN "tag_rtb" ELSE "create_subnet01")
          /\ UNCHANGED <<ec2, exit_code, locals, pre, prev>>
       \/ Raise("CreateRoute", rtb_id, CanCreateRoute(ec2, rtb_id, igw_id))

\* create_public_route_table: client.create_route and the check of response['Return'].
\* The request can succeed at the HTTP level and still answer Return = False: the
\* function then raises ClientError itself, before the tag is applied.
create_public_route_table_route ==
    /\ pc = "create_route"
    /\ \/ /\ CanCreateRoute(ec2, rtb_id, igw_id)
          /\ Ok("CreateRoute", rtb_id, CreateRoute(ec2, rtb_id, igw_id),
                IF name # None THEN "tag_rtb" ELSE "create_subnet01")
          /\ UNCHANGED locals
       \/ /\ CanCreateRoute(ec2, rtb_id, igw_id)
          /\ Fault
          /\ calls' = Append(calls, Call("CreateRoute", rtb_id, "false"))
          /\ pc' = "exited"
          /\ exit_code' = 1
          /\ UNCHANGED <<ec2, locals, pre, prev>>
       \/ Raise("CreateRoute", rtb_id, CanCreateRoute(ec2, rtb_id, igw_id))

\* create_public_route_table: client.create_tags, when rtb_name is not None; return.
create_public_route_table_tags ==
    /\ pc = "tag_rtb"
    /\ \/ /\ CanTag(ec2, rtb_id)
          /\ Ok("CreateTags", rtb_id, CreateTags(ec2, rtb_id), "create_subnet01")
          /\ UNCHANGED <<cfg, wait, ids, loops>>
       \/ Raise("CreateTags", rtb_id, CanTag(ec2, rtb_id))

\* create_subnet: client.create_subnet.  main() calls it for subnet01 (k = 1), which
\* it then makes public, and for subnet02 (k = 2), after which it ends.
create_subnet_create(k) ==
    /\ pc = (IF k = 1 THEN "create_subnet01" ELSE "create_subnet02")
    /\ \/ /\ CanCreateSubnet(ec2, vpc_id)
          /\ Ok("CreateSubnet", NewSubnetId(ec2), CreateSubnet(ec2, vpc_id),
                IF name # None THEN (IF k = 1 THEN "tag_subnet01" ELSE "tag_subnet02")
                      ELSE IF k = 1 THEN "associate" ELSE "exited")
          /\ subnet01_id' = (IF k = 1 THEN NewSubnetId(ec2) ELSE subnet01_id)
          /\ subnet02_id' = (IF k = 2 THEN NewSubnetId(ec2) ELSE subnet02_id)
          /\ UNCHANGED <<cfg, wait, vpc_id, igw_id, rtb_id, subnet01_association_id, loops>>
       \/ Raise("CreateSubnet", None, CanCreateSubnet(ec2, vpc_id))

\* create_subnet: client.create_tags, when subnet_name is not None; return.
create_subnet_tags(k) ==
    /\ pc = (IF k = 1 THEN "tag_subnet01" ELSE "tag_subnet02")
    /\ LET sid == IF k = 1 THEN subnet01_id ELSE subnet02_id IN
       \/ /\ CanTag(ec2, sid)
          /\ Ok("CreateTags", sid, CreateTags(ec2, sid), IF k = 1 THEN "associate" ELSE "exited")
          /\ UNCHANGED <<cfg, wait, ids, loops>>
       \/ Raise("CreateTags", sid, CanTag(ec2, sid))

create_subnet01_create == create_subnet_create(1)
create_subnet01_tags == create_subnet_tags(1)
create_subnet02_create == create_subnet_create(2)
create_subnet02_tags == create_subnet_tags(2)

\* Mutant: the function returns the association id without setting the subnet's
\* MapPublicIpOnLaunch attribute.
associate_public_route_associate_only ==
    /\ pc = "associate"
    /\ \/ /\ CanAssociateRouteTable(ec2, rtb_id, subnet01_id)
          /\ Ok("AssociateRouteTable", NewAssocId(ec2),
                AssociateRouteTable(ec2, rtb_id, subnet01_id), "create_subnet02")
          /\ association' = NewAssocId(ec2)
          /\ subnet01_association_id' = NewAssocId(ec2)
          /\ UNCHANGED <<cfg, wait, vpc_id, igw_id, rtb_id, subnet01_id, subnet02_id,
                         rtb, associations, subnets>>
       \/ Raise("AssociateRouteTable", subnet01_id,
                CanAssociateRouteTable(ec2, rtb_id, subnet01_id))

\* associate_public_route: client.associate_route_table.
associate_public_route_associate ==
    /\ pc = "associate"
    /\ \/ /\ CanAssociateRouteTable(ec2, rtb_id, subnet01_id)
          /\ Ok("AssociateRouteTable", NewAssocId(ec2),
                AssociateRouteTable(ec2, rtb_id, subnet01_id), "modify_subnet")
          /\ association' = NewAssocId(ec2)
          /\ UNCHANGED <<cfg, wait, ids, rtb, associations, subnets>>
       \/ Raise("AssociateRouteTable", subnet01_id, CanAssociateRouteTable(ec2, rtb_id, subnet01_id))

\* associate_public_route: client.modify_subnet_attribute(MapPublicIpOnLaunch), then
\* return association['AssociationId'].
associate_public_route_modify ==
    /\ pc = "modify_subnet"
    /\ \/ /\ CanModifySubnetAttribute(ec2, subnet01_id)
          /\ Ok("ModifySubnetAttribute", subnet01_id, ModifySubnetAttribute(ec2, subnet01_id),
                "create_subnet02")
          /\ subnet01_association_id' = association
          /\ UNCHANGED <<cfg, wait, vpc_id, igw_id, rtb_id, subnet01_id, subnet02_id, loops>>
       \/ Raise("ModifySubnetAttribute", subnet01_id, CanModifySubnetAttribute(ec2, subnet01_id))

(***************************************************************************)
(* Teardown: delete_vpc_resources and the lookups it calls.  A describe    *)
(* request returns its matches in an order the provider chooses: element 0 *)
(* is any of them, and a list is any arrangement of them.                  *)
(***************************************************************************)

\* get_vpc_id, and delete_vpc_resources' return when no VPC has the CIDR block.
get_vpc_id ==
    /\ pc = "get_vpc_id"
    /\ \/ LET Vpcs == DescribeVpcs(ec2, cidr_block) IN
          /\ \/ /\ Vpcs = {}
                /\ vpc_id' = None
                /\ Ok("DescribeVpcs", None, ec2, "exited")
             \/ \E v \in Vpcs :
                   /\ vpc_id' = v
                   /\ Ok("DescribeVpcs", None, ec2, "get_igw")
          /\ UNCHANGED <<cfg, wait, igw_id, rtb_id, subnet01_id, subnet02_id,
                         subnet01_association_id, loops>>
       \/ Raise("DescribeVpcs", None, TRUE)

\* Mutant: the lookup leaves out the attachment.vpc-id filter.
get_vpc_internet_gateway_id_unfiltered ==
    /\ pc = "get_igw"
    /\ \/ LET InternetGateways == DOMAIN ec2.igws IN
          /\ \/ /\ InternetGateways = {}
                /\ igw_id' = None
                /\ Ok("DescribeInternetGateways", None, ec2, "get_subnets")
             \/ \E g \in InternetGateways :
                   /\ igw_id' = g
                   /\ Ok("DescribeInternetGateways", None, ec2, "get_rtb")
          /\ UNCHANGED <<cfg, wait, vpc_id, rtb_id, subnet01_id, subnet02_id,
                         subnet01_association_id, loops>>
       \/ Raise("DescribeInternetGateways", None, TRUE)

\* get_vpc_internet_gateway_id, and the branch on igw_id is not None.
get_vpc_internet_gateway_id ==
    /\ pc = "get_igw"
    /\ \/ LET InternetGateways == DescribeInternetGateways(ec2, vpc_id) IN
          /\ \/ /\ InternetGateways = {}
                /\ igw_id' = None
                /\ Ok("DescribeInternetGateways", None, ec2, "get_subnets")
             \/ \E g \in InternetGateways :
                   /\ igw_id' = g
                   /\ Ok("DescribeInternetGateways", None, ec2, "get_rtb")
          /\ UNCHANGED <<cfg, wait, vpc_id, rtb_id, subnet01_id, subnet02_id,
                         subnet01_association_id, loops>>
       \/ Raise("DescribeInternetGateways", None, TRUE)

\* Mutant: the lookup of the public route table finds nothing.
get_public_route_table_info_not_found ==
    /\ pc = "get_rtb"
    /\ \/ /\ rtb' = NoRtb
          /\ UNCHANGED <<associations, rtb_id>>
          /\ Ok("DescribeRouteTables", None, ec2, "deltags_igw")
          /\ UNCHANGED <<cfg, wait, vpc_id, igw_id, subnet01_id, subnet02_id,
                         subnet01_association_id, association, subnets>>
       \/ Raise("DescribeRouteTables", None, TRUE)

\* Mutant: the loop over rtb['Associations'] is left out.
get_public_route_table_info_without_loop ==
    /\ pc = "get_rtb"
    /\ \/ LET RouteTables == DescribeRouteTables(ec2, igw_id) IN
          /\ \/ /\ RouteTables = {}
                /\ rtb' = NoRtb
                /\ UNCHANGED <<associations, rtb_id>>
                /\ Ok("DescribeRouteTables", None, ec2, "deltags_igw")
             \/ \E r \in RouteTables : \E q \in Perms(AssociationsOf(ec2, r)) :
                   /\ rtb' = [RouteTableId |-> r, Associations |-> q]
                   /\ associations' = <<>>
                   /\ rtb_id' = r
                   /\ Ok("DescribeRouteTables", None, ec2, "deltags_rtb")
          /\ UNCHANGED <<cfg, wait, vpc_id, igw_id, subnet01_id, subnet02_id,
                         subnet01_association_id, association, subnets>>
       \/ Raise("DescribeRouteTables", None, TRUE)

\* get_public_route_table_info, the branch on rtb is not None and the entry of the
\* loop over rtb['Associations'] (rtb_id is assigned when the loop is left).
get_public_route_table_info ==
    /\ pc = "get_rtb"
    /\ \/ LET RouteTables == DescribeRouteTables(ec2, igw_id) IN
          /\ \/ /\ RouteTables = {}
                /\ rtb' = NoRtb
                /\ UNCHANGED <<associations, rtb_id>>
                /\ Ok("DescribeRouteTables", None, ec2, "deltags_igw")
             \/ \E r \in RouteTables : \E q \in Perms(AssociationsOf(ec2, r)) :
                   /\ rtb' = [RouteTableId |-> r, Associations |-> q]
                   /\ associations' = q
                   /\ rtb_id' = (IF q = <<>> THEN r ELSE rtb_id)
                   /\ Ok("DescribeRouteTables", None, ec2,
                         IF q = <<>> THEN "deltags_rtb" ELSE "disassociate")
          /\ UNCHANGED <<cfg, wait, vpc_id, igw_id, subnet01_id, subnet02_id,
                         subnet01_association_id, association, subnets>>
       \/ Raise("DescribeRouteTables", None, TRUE)

\* One turn of the loop over rtb['Associations']: client.disassociate_route_table.
disassociate_route_table ==
    /\ pc = "disassociate"
    /\ LET a == Head(associations) IN
       \/ /\ CanDisassociateRouteTable(ec2, a)
          /\ associations' = Tail(associations)
          /\ rtb_id' = (IF Tail(associations) = <<>> THEN rtb.RouteTableId ELSE rtb_id)
          /\ Ok("DisassociateRouteTable", a, DisassociateRouteTable(ec2, a),
                IF Tail(associations) = <<>> THEN "deltags_rtb" ELSE "disassociate")
          /\ UNCHANGED <<cfg, wait, vpc_id, igw_id, subnet01_id, subnet02_id,
                         subnet01_association_id, association, rtb, subnets>>
       \/ Raise("DisassociateRouteTable", a, CanDisassociateRouteTable(ec2, a))

\* Mutant: the route table's tags are deleted and the table itself is left.
delete_tags_rtb_without_delete ==
    /\ pc = "deltags_rtb"
    /\ \/ /\ CanTag(ec2, rtb_id)
          /\ Ok("DeleteTags", rtb_id, DeleteTags(ec2, rtb_id), "deltags_igw")
          /\ UNCHANGED locals
       \/ Raise("DeleteTags", rtb_id, CanTag(ec2, rtb_id))

\* client.delete_tags(Resources=[rtb_id]).
delete_tags_rtb ==
    /\ pc = "deltags_rtb"
    /\ \/ /\ CanTag(ec2, rtb_id)
          /\ Ok("DeleteTags", rtb_id, DeleteTags(ec2, rtb_id), "delete_rtb")
          /\ UNCHANGED locals
       \/ Raise("DeleteTags", rtb_id, CanTag(ec2, rtb_id))

\* client.delete_route_table.
delete_route_table ==
    /\ pc = "delete_rtb"
    /\ \/ /\ CanDeleteRouteTable(ec2, rtb_id)
          /\ Ok("DeleteRouteTable", rtb_id, DeleteRouteTable(ec2, rtb_id), "deltags_igw")
          /\ UNCHANGED locals
       \/ Raise("DeleteRouteTable", rtb_id, CanDeleteRouteTable(ec2, rtb_id))

\* Mutant: the gateway is deleted without being detached first.
delete_tags_igw_without_detach ==
    /\ pc = "deltags_igw"
    /\ \/ /\ CanTag(ec2, igw_id)
          /\ Ok("DeleteTags", igw_id, DeleteTags(ec2, igw_id), "delete_igw")
          /\ UNCHANGED locals
       \/ Raise("DeleteTags", igw_id, CanTag(ec2, igw_id))

\* client.delete_tags(Resources=[igw_id]).
delete_tags_igw ==
    /\ pc = "deltags_igw"
    /\ \/ /\ CanTag(ec2, igw_id)
          /\ Ok("DeleteTags", igw_id, DeleteTags(ec2, igw_id), "detach_igw")
          /\ UNCHANGED locals
       \/ Raise("DeleteTags", igw_id, CanTag(ec2, igw_id))

\* client.detach_internet_gateway.
detach_internet_gateway ==
    /\ pc = "detach_igw"
    /\ \/ /\ CanDetachInternetGateway(ec2, igw_id, vpc_id)
          /\ Ok("DetachInternetGateway", igw_id, DetachInternetGateway(ec2, igw_id), "delete_igw")
          /\ UNCHANGED locals
       \/ Raise("DetachInternetGateway", igw_id, CanDetachInternetGateway(ec2, igw_id, vpc_id))

\* client.delete_internet_gateway.
delete_internet_gateway ==
    /\ pc = "delete_igw"
    /\ \/ /\ CanDeleteInternetGateway(ec2, igw_id)
          /\ Ok("DeleteInternetGateway", igw_id, DeleteInternetGateway(ec2, igw_id), "get_subnets")
          /\ UNCHANGED locals
       \/ Raise("DeleteInternetGateway", igw_id, CanDeleteInternetGateway(ec2, igw_id))

\* Mutant: the lookup leaves out the vpc-id filter.
get_subnets_unfiltered ==
    /\ pc = "get_subnets"
    /\ \/ /\ \E q \in Perms(DOMAIN ec2.subnets) :
                /\ subnets' = q
                /\ Ok("DescribeSubnets", None, ec2,
                      IF q = <<>> THEN "deltags_vpc" ELSE "deltags_subnet")
          /\ UNCHANGED <<cfg, wait, ids, association, rtb, associations>>
       \/ Raise("DescribeSubnets", None, TRUE)

\* get_subnets, and the entry of the loop over subnets.
get_subnets ==
    /\ pc = "get_subnets"
    /\ \/ /\ \E q \in Perms(DescribeSubnets(ec2, vpc_id)) :
                /\ subnets' = q
                /\ Ok("DescribeSubnets", None, ec2,
                      IF q = <<>> THEN "deltags_vpc" ELSE "deltags_subnet")
          /\ UNCHANGED <<cfg, wait, ids, association, rtb, associations>>
       \/ Raise("DescribeSubnets", None, TRUE)

\* One turn of the loop over subnets: client.delete_tags(Resources=[subnet_id]).
delete_tags_subnet ==
    /\ pc = "deltags_subnet"
    /\ LET subnet_id == Head(subnets) IN
       \/ /\ CanTag(ec2, subnet_id)
          /\ Ok("DeleteTags", subnet_id, DeleteTags(ec2, subnet_id), "delete_subnet")
          /\ UNCHANGED locals
       \/ Raise("DeleteTags", subnet_id, CanTag(ec2, subnet_id))

\* Mutant: the tags of the subnets after the first are not deleted.
delete_subnet_without_tags ==
    /\ pc = "delete_subnet"
    /\ LET subnet_id == Head(subnets) IN
       \/ /\ CanDeleteSubnet(ec2, subnet_id)
          /\ subnets' = Tail(subnets)
          /\ Ok("DeleteSubnet", subnet_id, DeleteSubnet(ec2, subnet_id),
                IF Tail(subnets) = <<>> THEN "deltags_vpc" ELSE "delete_subnet")
          /\ UNCHANGED <<cfg, wait, ids, association, rtb, associations>>
       \/ Raise("DeleteSubnet", subnet_id, CanDeleteSubnet(ec2, subnet_id))

\* The same turn: client.delete_subnet, then the next subnet or the end of the loop.
delete_subnet ==
    /\ pc = "delete_subnet"
    /\ LET subnet_id == Head(subnets) IN
       \/ /\ CanDeleteSubnet(ec2, subnet_id)
          /\ subnets' = Tail(subnets)
          /\ Ok("DeleteSubnet", subnet_id, DeleteSubnet(ec2, subnet_id),
                IF Tail(subnets) = <<>> THEN "deltags_vpc" ELSE "deltags_subnet")
          /\ UNCHANGED <<cfg, wait, ids, association, rtb, associations>>
       \/ Raise("DeleteSubnet", subnet_id, CanDeleteSubnet(ec2, subnet_id))

\* Mutant: an error of the request is swallowed and the teardown goes on.
delete_tags_vpc_ignoring_error ==
    /\ pc = "deltags_vpc"
    /\ \/ /\ CanTag(ec2, vpc_id)
          /\ Ok("DeleteTags", vpc_id, DeleteTags(ec2, vpc_id), "delete_vpc")
          /\ UNCHANGED locals
       \/ /\ Fault
          /\ calls' = Append(calls, Call("DeleteTags", vpc_id, "error"))
          /\ pc' = "delete_vpc"
          /\ UNCHANGED <<ec2, exit_code, locals, pre, prev>>

\* client.delete_tags(Resources=[vpc_id]).
delete_tags_vpc ==
    /\ pc = "deltags_vpc"
    /\ \/ /\ CanTag(ec2, vpc_id)
          /\ Ok("DeleteTags", vpc_id, DeleteTags(ec2, vpc_id), "delete_vpc")
          /\ UNCHANGED locals
       \/ Raise("DeleteTags", vpc_id, CanTag(ec2, vpc_id))

\* Mutant: a DeleteVpc request that met a fault is issued again.
delete_vpc_with_retry ==
    /\ pc = "delete_vpc"
    /\ \/ /\ CanDeleteVpc(ec2, vpc_id)
          /\ Ok("DeleteVpc", vpc_id, DeleteVpc(ec2, vpc_id), "exited")
          /\ UNCHANGED locals
       \/ /\ CanDeleteVpc(ec2, vpc_id)
          /\ Fault
          /\ calls' = Append(calls, Call("DeleteVpc", vpc_id, "error"))
          /\ UNCHANGED <<ec2, pc, exit_code, locals, pre, prev>>
       \/ /\ ~CanDeleteVpc(ec2, vpc_id)
          /\ Raise("DeleteVpc", vpc_id, FALSE)

\* client.delete_vpc; delete_vpc_resources returns and main() calls exit(0).
delete_vpc ==
    /\ pc = "delete_vpc"
    /\ \/ /\ CanDeleteVpc(ec2, vpc_id)
          /\ Ok("DeleteVpc", vpc_id, DeleteVpc(ec2, vpc_id), "exited")
          /\ UNCHANGED locals
       \/ Raise("DeleteVpc", vpc_id, CanDeleteVpc(ec2, vpc_id))

Next ==
    \/ main
    \/ create_vpc_create
    \/ create_vpc_wait
    \/ create_vpc_tags
    \/ create_vpc_modify
    \/ create_internet_gateway_create
    \/ create_internet_gateway_tags
    \/ create_internet_gateway_attach
    \/ create_public_route_table_create
    \/ create_public_route_table_route
    \/ create_public_route_table_tags
    \/ create_subnet01_create
    \/ create_subnet01_tags
    \/ associate_public_route_associate
    \/ associate_public_route_modify
    \/ create_subnet02_create
    \/ create_subnet02_tags
    \/ get_vpc_id
    \/ get_vpc_internet_gateway_id
    \/ get_public_route_table_info
    \/ disassociate_route_table
    \/ delete_tags_rtb
    \/ delete_route_table
    \/ delete_tags_igw
    \/ detach_internet_gateway
    \/ delete_internet_gateway
    \/ get_subnets
    \/ delete_tags_subnet
    \/ delete_subnet
    \/ delete_tags_vpc
    \/ delete_vpc

Spec == Init /\ [][Next]_vars

(***************************************************************************)
(* The script run on more than one CIDR block: main()'s cidr_block is a    *)
(* value the user sets before running, so that one account can hold the    *)
(* topologies of several CIDR blocks.                                      *)
(***************************************************************************)
EditedCidrs == Cidrs \cup {"10.2.0.0/16"}

\* main() with cidr_block set to one of EditedCidrs.  The history of the process
\* before (prev) is not kept here.
main_edited ==
    /\ pc \in {"idle", "exited"}
    /\ \E d \in BOOLEAN, c \in EditedCidrs :
        /\ delete_resources' = d
        /\ cidr_block' = c
        /\ pc' = IF d THEN "get_vpc_id" ELSE "create_vpc"
    /\ name' \in Names
    /\ wait' = FALSE
    /\ vpc_id' = None
    /\ igw_id' = None
    /\ rtb_id' = None
    /\ subnet01_id' = None
    /\ subnet02_id' = None
    /\ subnet01_association_id' = None
    /\ association' = None
    /\ rtb' = NoRtb
    /\ associations' = <<>>
    /\ subnets' = <<>>
    /\ calls' = <<>>
    /\ pre' = ec2
    /\ UNCHANGED <<ec2, exit_code, faults, prev>>

NextEdited ==
    \/ main_edited
    \/ create_vpc_create
    \/ create_vpc_wait
    \/ create_vpc_tags
    \/ create_vpc_modify
    \/ create_internet_gateway_create
    \/ create_internet_gateway_tags
    \/ create_internet_gateway_attach
    \/ create_public_route_table_create
    \/ create_public_route_table_route
    \/ create_public_route_table_tags
    \/ create_subnet01_create
    \/ create_subnet01_tags
    \/ associate_public_route_associate
    \/ associate_public_route_modify
    \/ create_subnet02_create
    \/ create_subnet02_tags
    \/ get_vpc_id
    \/ get_vpc_internet_gateway_id
    \/ get_public_route_table_info
    \/ disassociate_route_table
    \/ delete_tags_rtb
    \/ delete_route_table
    \/ delete_tags_igw
    \/ detach_internet_gateway
    \/ delete_internet_gateway
    \/ get_subnets
    \/ delete_tags_subnet
    \/ delete_subnet
    \/ delete_tags_vpc
    \/ delete_vpc

SpecEdited == Init /\ [][NextEdited]_vars

(***************************************************************************)
(* Properties.                                                             *)
(***************************************************************************)
CallsIdx == 1..Len(calls)

\* The requests that change the account.
Mutating(op) ==
    op \notin {"DescribeVpcs", "DescribeInternetGateways", "DescribeRouteTables",
               "DescribeSubnets", "WaitVpcAvailable"}
MutatingCalls == SelectSeq(calls, LAMBDA c : Mutating(c.op))
Ops(q) == [i \in 1..Len(q) |-> q[i].op]
IsPrefix(p, q) == Len(p) <= Len(q) /\ \A i \in 1..Len(p) : p[i] = q[i]

\* No request of the process has failed so far.
NoError == \A i \in CallsIdx : calls[i].res = "ok"

\* C1: in every teardown run, whatever the topology it starts from and wherever a
\* provider error stops it, DeleteRouteTable is issued for a route table only after
\* DisassociateRouteTable has succeeded for every association the table had, and
\* when the request is issued no association references the table.
C1_DisassociateBeforeDelete ==
    /\ \A i \in CallsIdx :
          calls[i].op = "DeleteRouteTable" =>
            \A a \in AssociationsOf(pre, calls[i].rid) :
                \E j \in 1..(i - 1) : calls[j] = Call("DisassociateRouteTable", a, "ok")
    /\ pc = "delete_rtb" => AssociationsOf(ec2, rtb_id) = {}

\* A teardown run has issued DeleteRouteTable for a table that had an association.
C1_Witness ==
    \E i \in CallsIdx :
        /\ calls[i].op = "DeleteRouteTable"
        /\ AssociationsOf(pre, calls[i].rid) # {}

\* The reverse-dependency order of the teardown of that topology.
TeardownOrder ==
    <<"DisassociateRouteTable", "DeleteTags", "DeleteRouteTable",
      "DeleteTags", "DetachInternetGateway", "DeleteInternetGateway",
      "DeleteTags", "DeleteSubnet", "DeleteTags", "DeleteSubnet",
      "DeleteTags", "DeleteVpc">>

\* C2: a teardown run that starts from the topology of one complete provisioning
\* run, on that VPC's CIDR block, and meets no provider error issues its requests
\* in the reverse-dependency order; at each delete request the route table has no
\* association, the gateway is detached, the VPC owns no subnet, no non-main route
\* table and no attached gateway; it ends with exit code 0 and an empty account.
C2_ReverseDependencyOrder ==
    (/\ delete_resources
     /\ Provisioned(pre)
     /\ DescribeVpcs(pre, cidr_block) # {}
     /\ NoError)
    => /\ IsPrefix(Ops(MutatingCalls), TeardownOrder)
       /\ pc = "delete_rtb" =>
             /\ rtb_id \in DOMAIN ec2.rtbs
             /\ AssociationsOf(ec2, rtb_id) = {}
       /\ pc = "delete_igw" =>
             /\ igw_id \in DOMAIN ec2.igws
             /\ ec2.igws[igw_id] = None
       /\ pc = "delete_subnet" => Head(subnets) \in DOMAIN ec2.subnets
       /\ pc = "delete_vpc" =>
             /\ vpc_id \in DOMAIN ec2.vpcs
             /\ DescribeSubnets(ec2, vpc_id) = {}
             /\ DescribeInternetGateways(ec2, vpc_id) = {}
             /\ \A r \in DOMAIN ec2.rtbs : ec2.rtbs[r].vpc # vpc_id
       /\ pc = "exited" =>
             /\ exit_code = 0
             /\ Ops(MutatingCalls) = TeardownOrder
             /\ ec2 = EmptyEc2

\* Such a run has ended.
C2_Witness ==
    /\ delete_resources
    /\ Provisioned(pre)
    /\ DescribeVpcs(pre, cidr_block) # {}
    /\ NoError
    /\ pc = "exited"
    /\ Len(calls) = 16

\* No request of the process has met a fault (the provider may have refused one).
NoFault == \A i \in CallsIdx : calls[i].res \in {"ok", "refused"}

\* C3: a teardown process that follows a successful teardown process on the same
\* CIDR block issues no request that changes the account, and succeeds.
C3_TeardownIdempotent ==
    (/\ delete_resources
     /\ prev.delete
     /\ prev.cidr = cidr_block
     /\ prev.code = 0)
    => /\ MutatingCalls = <<>>
       /\ (pc = "exited" /\ NoFault) => exit_code = 0

\* C4, for a teardown that started from the topology of one complete provisioning
\* run: a teardown process that follows a teardown process aborted by a provider
\* error, on the same CIDR block, and meets no fault itself, succeeds and leaves
\* none of the resources the aborted process had resolved.
C4_TeardownResumable ==
    (/\ pc = "exited"
     /\ delete_resources
     /\ prev.delete
     /\ prev.complete
     /\ prev.cidr = cidr_block
     /\ prev.code = 1
     /\ NoFault)
    => /\ exit_code = 0
       /\ prev.ids \cap Resources(ec2) = {}

\* C5: a teardown process that follows an aborted provisioning process, on the same
\* CIDR block, and meets no fault itself, succeeds and leaves none of the resources
\* the provisioning process had created.
C5_TeardownAfterAbortedProvisioning ==
    (/\ pc = "exited"
     /\ delete_resources
     /\ ~prev.delete
     /\ prev.cidr = cidr_block
     /\ prev.code = 1
     /\ NoFault)
    => /\ exit_code = 0
       /\ prev.ids \cap Resources(ec2) = {}

\* C6: a request that fails is the last request of its process: the process ends
\* at once with exit code 1, and the failing step leaves the account as it was
\* (nothing is rolled back); a process all of whose requests succeed ends with
\* exit code 0.
C6_AbortOnFirstError ==
    /\ [](/\ \A i \in CallsIdx :
                calls[i].res # "ok" => (i = Len(calls) /\ pc = "exited" /\ exit_code = 1)
          /\ (pc = "exited" /\ NoError) => exit_code = 0)
    /\ [][(pc # "exited" /\ pc' = "exited" /\ exit_code' = 1)
            => /\ ec2' = ec2
               /\ Len(calls') = Len(calls) + 1
               /\ calls'[Len(calls')].res # "ok"]_vars

\* A provisioning process and a teardown process have been aborted, each after
\* requests that changed the account.
C6_Witness ==
    /\ pc = "exited"
    /\ exit_code = 1
    /\ delete_resources
    /\ ~prev.delete
    /\ prev.code = 1
    /\ Len(MutatingCalls) > 2
    /\ ec2 # pre

\* C7: when CreateRoute answers Return = False, create_public_route_table raises:
\* the request is the last of the process, which exits with code 1, and the route
\* table never gets its name tag, whatever rtb_name is.
C7_RouteCreationError ==
    \A i \in CallsIdx :
        calls[i].res = "false" =>
            /\ calls[i].op = "CreateRoute"
            /\ i = Len(calls)
            /\ pc = "exited"
            /\ exit_code = 1
            /\ calls[i].rid \notin ec2.tags
            /\ \A j \in CallsIdx : ~(calls[j].op = "CreateTags" /\ calls[j].rid = calls[i].rid)

\* CreateRoute has answered Return = False to a process whose rtb_name is set.
C7_Witness ==
    /\ name # None
    /\ calls # <<>>
    /\ calls[Len(calls)] = Call("CreateRoute", rtb_id, "false")

\* C8: when associate_public_route(rtb_id, subnet01_id) has returned, the value it
\* returned is the id of an association of subnet01 with that route table, and the
\* subnet's MapPublicIpOnLaunch attribute is true.
C8_AssociatePublicRoute ==
    pc = "create_subnet02" =>
        /\ subnet01_association_id \in DOMAIN ec2.assocs
        /\ ec2.assocs[subnet01_association_id] = [rtb |-> rtb_id, subnet |-> subnet01_id]
        /\ ec2.subnets[subnet01_id].public

\* associate_public_route has returned.
C8_Witness ==
    /\ pc = "create_subnet02"
    /\ calls[Len(calls)].op = "ModifySubnetAttribute"

\* C9: a provisioning process that ends with exit code 0 leaves its VPC with one
\* attached gateway, one route table whose only route is 0.0.0.0/0 to that gateway,
\* two subnets and one association, on subnet01, with subnet02's
\* MapPublicIpOnLaunch attribute false; started in an empty account, it leaves
\* the account with exactly these resources.
C9_FullProvisioning ==
    (~delete_resources /\ pc = "exited" /\ exit_code = 0)
    => /\ vpc_id \in DOMAIN ec2.vpcs
       /\ DescribeInternetGateways(ec2, vpc_id) = {igw_id}
       /\ {r \in DOMAIN ec2.rtbs : ec2.rtbs[r].vpc = vpc_id} = {rtb_id}
       /\ ec2.rtbs[rtb_id].routes = {[dest |-> DefaultRoute, gw |-> igw_id]}
       /\ subnet01_id # subnet02_id
       /\ DescribeSubnets(ec2, vpc_id) = {subnet01_id, subnet02_id}
       /\ {a \in DOMAIN ec2.assocs : ec2.assocs[a].subnet \in DescribeSubnets(ec2, vpc_id)}
             = {subnet01_association_id}
       /\ ec2.assocs[subnet01_association_id] = [rtb |-> rtb_id, subnet |-> subnet01_id]
       /\ ec2.subnets[subnet01_id].public
       /\ ~ec2.subnets[subnet02_id].public
       /\ pre = EmptyEc2 => Provisioned(ec2)

\* A provisioning process started in an empty account has ended with exit code 0.
C9_Witness ==
    /\ ~delete_resources
    /\ pc = "exited"
    /\ exit_code = 0
    /\ pre = EmptyEc2

CreateVpcCalls(v, vpc_name, w) ==
    <<Call("CreateVpc", v, "ok")>>
        \o (IF w THEN <<Call("WaitVpcAvailable", v, "ok")>> ELSE <<>>)
        \o (IF vpc_name # None THEN <<Call("CreateTags", v, "ok")>> ELSE <<>>)
        \o <<Call("ModifyVpcAttribute", v, "ok")>>

\* C11: when create_vpc returns, whatever vpc_name and wait are, it has issued
\* ModifyVpcAttribute (EnableDnsHostnames) exactly once, as its last request, and the
\* VPC's DNS-hostnames attribute is set; when wait is true it has called the waiter
\* exactly once, right after CreateVpc and before CreateTags and ModifyVpcAttribute;
\* when wait is false it has not called the waiter.  No process calls the waiter
\* or ModifyVpcAttribute more than once.
C11_CreateVpcDnsAndWait ==
    /\ [](\A op \in {"WaitVpcAvailable", "ModifyVpcAttribute"} :
            Cardinality({i \in CallsIdx : calls[i].op = op}) <= 1)
    /\ [][(pc = "modify_vpc" /\ pc' = "create_igw")
            => /\ calls' = CreateVpcCalls(vpc_id, name, wait)
               /\ ec2'.vpcs[vpc_id].dns]_vars

\* create_vpc has returned after waiting for the VPC and tagging it.
C11_Witness ==
    /\ pc = "create_igw"
    /\ calls = CreateVpcCalls(vpc_id, "boto3", TRUE)
    /\ ec2.vpcs[vpc_id].dns

\* The requests that delete a resource.
DeleteOps == {"DeleteRouteTable", "DeleteInternetGateway", "DeleteSubnet", "DeleteVpc"}

\* C12, as claimed: in a teardown process every delete request comes right after the
\* DeleteTags request on the same resource, with no request in between.
C12_TagsImmediatelyBeforeDelete ==
    delete_resources =>
        \A i \in CallsIdx :
            calls[i].op \in DeleteOps =>
                /\ i > 1
                /\ calls[i - 1] = Call("DeleteTags", calls[i].rid, "ok")

\* C12, amended: in a teardown process DeleteRouteTable, DeleteSubnet and DeleteVpc
\* come right after the DeleteTags request on the same resource;
\* DeleteInternetGateway comes right after DetachInternetGateway on the same
\* gateway, which comes right after the DeleteTags request on it; every DeleteTags
\* request names one existing resource and the request after it is on that
\* resource (tag deletions are not batched).
C12_TagsBeforeDelete ==
    delete_resources =>
        \A i \in CallsIdx :
            /\ calls[i].op \in DeleteOps \ {"DeleteInternetGateway"} =>
                  /\ i > 1
                  /\ calls[i - 1] = Call("DeleteTags", calls[i].rid, "ok")
            /\ calls[i].op = "DeleteInternetGateway" =>
                  /\ i > 2
                  /\ calls[i - 1] = Call("DetachInternetGateway", calls[i].rid, "ok")
                  /\ calls[i - 2] = Call("DeleteTags", calls[i].rid, "ok")
            /\ calls[i].op = "DeleteTags" =>
                  /\ calls[i].rid \in Resources(pre)
                  /\ i < Len(calls) =>
                        /\ calls[i + 1].rid = calls[i].rid
                        /\ calls[i + 1].op \in (DeleteOps \ {"DeleteInternetGateway"})
                                                  \cup {"DetachInternetGateway"}

\* A teardown process has deleted a route table, a gateway, two subnets and a VPC.
C12_Witness ==
    /\ delete_resources
    /\ \A op \in DeleteOps : \E i \in CallsIdx : calls[i].op = op /\ calls[i].res = "ok"
    /\ Cardinality({i \in CallsIdx : calls[i].op = "DeleteSubnet"}) = 2

\* The resources whose tags the process has deleted.
TagsDeleted == {calls[i].rid : i \in {j \in CallsIdx : calls[j] = Call("DeleteTags", calls[j].rid, "ok")}}

C14_DefaultRouteTarget ==
    \A r \in DOMAIN ec2.rtbs :
        \A rt \in ec2.rtbs[r].routes :
            rt.dest = DefaultRoute =>
                /\ rt.gw \in DOMAIN ec2.igws
                /\ ec2.igws[rt.gw] = ec2.rtbs[r].vpc

\* A teardown process has been aborted after it disassociated the public route
\* table, which still exists with its default route.
C14_Witness ==
    /\ delete_resources
    /\ pc = "exited"
    /\ exit_code = 1
    /\ \E i \in CallsIdx : calls[i].op = "DisassociateRouteTable" /\ calls[i].res = "ok"
    /\ \E r \in DOMAIN ec2.rtbs : \E rt \in ec2.rtbs[r].routes : rt.dest = DefaultRoute

\* C15: in every state a process leaves when it ends, also when a provider error
\* between the two requests of associate_public_route or midway through the
\* teardown has aborted it, a subnet that exists has an association with the public
\* route table if and only if its MapPublicIpOnLaunch attribute is true.
C15_AssociationIffPublicFlag ==
    pc = "exited" =>
        \A s \in DOMAIN ec2.subnets :
            (\E a \in DOMAIN ec2.assocs :
                /\ ec2.assocs[a].subnet = s
                /\ ec2.assocs[a].rtb \in DOMAIN ec2.rtbs)
            <=> ec2.subnets[s].public

\* C16: when a teardown process ends with success, whatever provisioning and
\* teardown processes on the CIDR block came before it, no VPC has the CIDR block.
C16_TeardownLeavesNoVpc ==
    (delete_resources /\ pc = "exited" /\ exit_code = 0)
        => DescribeVpcs(ec2, cidr_block) = {}

\* What belongs to the VPC v in the account e: v, the gateways attached to it, the
\* route tables that route to one of these gateways, the associations of these
\* route tables, and the subnets of v.
Owned(e, v) ==
    LET G == DescribeInternetGateways(e, v)
        R == UNION {DescribeRouteTables(e, g) : g \in G}
    IN  {v} \cup G \cup R \cup UNION {AssociationsOf(e, r) : r \in R}
            \cup DescribeSubnets(e, v)

\* The VPC w of the account e with everything it owns: its attributes and tag, its
\* gateways, its route tables with their routes and associations, its subnets.
VpcView(e, w) ==
    [vpc |-> e.vpcs[w],
     tagged |-> w \in e.tags,
     igws |-> {<<g, g \in e.tags>> : g \in DescribeInternetGateways(e, w)},
     rtbs |-> {<<r, e.rtbs[r], r \in e.tags, {<<a, e.assocs[a]>> : a \in AssociationsOf(e, r)}>> :
                  r \in {x \in DOMAIN e.rtbs : e.rtbs[x].vpc = w}},
     subnets |-> {<<s, e.subnets[s], s \in e.tags>> : s \in DescribeSubnets(e, w)}]

\* C17: every request of a teardown process that changes the account is on the VPC
\* the process resolved, a gateway attached to it, a route table routing to that
\* gateway, an association of that route table or a subnet of the VPC; every other
\* VPC, and so every VPC with another CIDR block, keeps its attributes, tags,
\* gateways, route tables, associations and subnets.
C17_TeardownFrame ==
    delete_resources =>
        /\ \A i \in CallsIdx :
              Mutating(calls[i].op) =>
                  /\ vpc_id # None
                  /\ calls[i].rid \in Owned(pre, vpc_id)
        /\ \A w \in DOMAIN pre.vpcs \ {vpc_id} :
              /\ w \in DOMAIN ec2.vpcs
              /\ VpcView(ec2, w) = VpcView(pre, w)

\* A teardown process has deleted the complete topology of its CIDR block in an
\* account that holds a VPC with another CIDR block, a gateway and subnets.
C17_Witness ==
    /\ delete_resources
    /\ pc = "exited"
    /\ exit_code = 0
    /\ Len(MutatingCalls) = Len(TeardownOrder)
    /\ \E w \in DOMAIN pre.vpcs :
          /\ pre.vpcs[w].cidr # cidr_block
          /\ DescribeInternetGateways(pre, w) # {}
          /\ DescribeSubnets(pre, w) # {}

\* The lookups of delete_vpc_resources.
Lookups == {"DescribeVpcs", "DescribeInternetGateways", "DescribeRouteTables", "DescribeSubnets"}

\* (associations of the public route table) + 2 * (subnets of the VPC) + 7, for the
\* route table and the VPC the process has resolved, in the account as the process
\* found it.
TeardownBound ==
    (IF rtb.RouteTableId = None THEN 0
     ELSE Cardinality(AssociationsOf(pre, rtb.RouteTableId)))
    + 2 * (IF vpc_id = None THEN 0 ELSE Cardinality(DescribeSubnets(pre, vpc_id)))
    + 7

\* C18: a teardown process terminates: each of its steps issues one request, it
\* issues each lookup at most once and at most TeardownBound requests that change
\* the account, a request that fails is its last (no retry), and as long as it has
\* not ended it has a step to take.
C18_TeardownTerminates ==
    /\ [](delete_resources =>
            /\ Len(MutatingCalls) <= TeardownBound
            /\ \A op \in Lookups : Cardinality({i \in CallsIdx : calls[i].op = op}) <= 1
            /\ \A i \in CallsIdx : calls[i].res # "ok" => (i = Len(calls) /\ pc = "exited")
            /\ pc # "exited" => ENABLED Next)
    /\ [][(delete_resources /\ pc # "exited")
            => (Len(calls') = Len(calls) + 1 /\ delete_resources')]_vars

\* A teardown process has ended after as many requests as the bound allows, for a
\* public route table with an association and a VPC with two subnets.
C18_Witness ==
    /\ delete_resources
    /\ pc = "exited"
    /\ rtb.RouteTableId # None
    /\ AssociationsOf(pre, rtb.RouteTableId) # {}
    /\ Cardinality(DescribeSubnets(pre, vpc_id)) = 2
    /\ Len(MutatingCalls) = TeardownBound

====
